---------------------------- MODULE Spec2Model ----------------------------
(***************************************************************************)
(* A model of phpser's decoding engine: the Str implementations            *)
(* (src/src/str_trait.rs), the Source readers Cursor (src/src/parse.rs),   *)
(* ByteReader and StringReader (src/src/source.rs), and the recursive      *)
(* grammar of src/src/parse.rs.                                            *)
(*                                                                         *)
(* Bytes are integers 0..255.  Offsets are 0-based as in the source; the   *)
(* operators Byte and Slice translate to TLA+'s 1-based sequences.         *)
(***************************************************************************)
EXTENDS Integers, Sequences, FiniteSets, TLC

VARIABLES
    src,    \* the reader (a Source) the caller holds
    prev,   \* the reader as it was before the last operation
    last,   \* the last operation and what it returned
    name,   \* raw property-name bytes handed to demangling since the last read
    dem,    \* what demangling returned for name
    twin    \* what decoding the same input through a ByteReader returned

vars == <<src, prev, last, name, dem, twin>>

-----------------------------------------------------------------------------
(* Bounds of the model. *)

\* longest generated input buffer
MaxLen == 3
\* largest limit a stream reader is constructed with (besides the input's length)
MaxLimit == 3
\* largest n passed to read_str by the reader-level actions
MaxN == 5
\* longest raw property name handed to demangling
MaxName == 4
\* read_str is also asked for the lengths usize::MAX - k, k < MaxWrap
MaxWrap == 2

-----------------------------------------------------------------------------
(* Byte literals of the grammar. *)

CH_N == 78
CH_b == 98
CH_i == 105
CH_d == 100
CH_s == 115
CH_a == 97
CH_O == 79
CH_C == 67
CH_R == 82
CH_SEMI == 59
CH_COLON == 58
CH_QUOTE == 34
CH_LBRACE == 123
CH_RBRACE == 125
CH_0 == 48
CH_1 == 49
CH_STAR == 42
NUL == 0

Min(a, b) == IF a <= b THEN a ELSE b
Max(a, b) == IF a >= b THEN a ELSE b

\* buf[i], 0-based
Byte(buf, i) == buf[i + 1]
\* buf[i..j], 0-based, j exclusive
Slice(buf, i, j) == SubSeq(buf, i + 1, j)

Some(v) == [some |-> TRUE, v |-> v]
None == [some |-> FALSE, v |-> 0]

-----------------------------------------------------------------------------
(* usize.  A usize is kept as the two's-complement reading of its 64 bits: *)
(* a small value v is v, and 2^64 - k is -k.  The values of the model lie   *)
(* within 2^31 of 0 or of 2^64, where the sum of two of them as integers   *)
(* is the reading of their sum modulo 2^64.                                *)

\* a < b on usize
UsizeLt(a, b) == IF (a < 0) = (b < 0) THEN a < b ELSE b < 0
\* a + b in a release build (wrapping)
WrappingAdd(a, b) == a + b
\* a + b leaves usize (a debug build panics: attempt to add with overflow)
AddOverflows(a, b) == UsizeLt(WrappingAdd(a, b), a)

-----------------------------------------------------------------------------
(* Errors (src/src/error.rs).  off = -1 stands for Error::offset() = None. *)

(* io is the std::io::ErrorKind inside IoError::Io, "None" for             *)
(* IoError::Phpser.                                                        *)

NoErr == [k |-> "None", off |-> -1, io |-> "None"]
UnexpectedEof == [k |-> "UnexpectedEof", off |-> -1, io |-> "None"]
BadEncoding(o) == [k |-> "BadEncoding", off |-> o, io |-> "None"]
BadToken(o) == [k |-> "BadToken", off |-> o, io |-> "None"]
BadNumber(o) == [k |-> "BadNumber", off |-> o, io |-> "None"]
BadArrayKeyType(o) == [k |-> "BadArrayKeyType", off |-> o, io |-> "None"]
BadObjectKeyType(o) == [k |-> "BadObjectKeyType", off |-> o, io |-> "None"]
\* IoError::Io(err)
Io(ioKind) == [k |-> "Io", off |-> -1, io |-> ioKind]

\* not results of the API: the process panicked or faulted; a call left the
\* preconditions of an unsafe fn, so that what happens depends on the build
Panicked == [k |-> "Panic", off |-> -1, io |-> "None"]
Undefined == [k |-> "Undefined", off |-> -1, io |-> "None"]

\* IoResult<T>: the reader afterwards, and Ok or Err(err).  An Ok carries
\* the bytes of a read (Ok) or the value of a decoding step (DOk, below).
Err(r, e) == [ok |-> FALSE, r |-> r, bytes |-> <<>>, val |-> [t |-> "None"], err |-> e]
Ok(r, bytes) == [ok |-> TRUE, r |-> r, bytes |-> bytes, val |-> [t |-> "None"], err |-> NoErr]

-----------------------------------------------------------------------------
(* UTF-8 (std::str::from_utf8, str::is_char_boundary). *)

IsCont(b) == b >= 128 /\ b <= 191

\* length of the well-formed UTF-8 sequence starting at s[1], 0 if none
Utf8Step(s) ==
    LET n == Len(s)
        b == s[1]
    IN  IF b < 128 THEN 1
        ELSE IF b >= 194 /\ b <= 223
            THEN IF n >= 2 /\ IsCont(s[2]) THEN 2 ELSE 0
        ELSE IF b >= 224 /\ b <= 239
            THEN IF /\ n >= 3
                    /\ IsCont(s[2])
                    /\ IsCont(s[3])
                    /\ (b = 224 => s[2] >= 160)
                    /\ (b = 237 => s[2] <= 159)
                 THEN 3 ELSE 0
        ELSE IF b >= 240 /\ b <= 244
            THEN IF /\ n >= 4
                    /\ IsCont(s[2])
                    /\ IsCont(s[3])
                    /\ IsCont(s[4])
                    /\ (b = 240 => s[2] >= 144)
                    /\ (b = 244 => s[2] <= 143)
                 THEN 4 ELSE 0
        ELSE 0

RECURSIVE Utf8Valid(_)
Utf8Valid(s) ==
    IF s = <<>> THEN TRUE
    ELSE LET k == Utf8Step(s)
         IN  k > 0 /\ Utf8Valid(SubSeq(s, k + 1, Len(s)))

\* str::is_char_boundary
IsCharBoundary(buf, i) ==
    IF i = 0 \/ i = Len(buf) THEN TRUE
    ELSE IF i > Len(buf) THEN FALSE
    ELSE ~IsCont(Byte(buf, i))

-----------------------------------------------------------------------------
(* The Str implementations (src/src/str_trait.rs).  text = TRUE is &str,   *)
(* text = FALSE is &[u8].                                                  *)

StrGetU8Char(text, buf, i) ==
    IF text
    THEN IF IsCharBoundary(buf, i + 1) THEN Some(Byte(buf, i)) ELSE None
    ELSE Some(Byte(buf, i))

\* clone_slice of &str without its is_char_boundary(j) check
StrCloneSliceUnchecked(text, buf, i, j) == Some(Slice(buf, i, j))

StrCloneSlice(text, buf, i, j) ==
    IF text
    THEN IF IsCharBoundary(buf, j) THEN Some(Slice(buf, i, j)) ELSE None
    ELSE Some(Slice(buf, i, j))

\* first occurrence of char strictly after offset i (the slice (i + 1)..)
StrFind(buf, i, char) ==
    LET hits == {k \in (i + 1)..(Len(buf) - 1) : Byte(buf, k) = char}
    IN  IF hits = {} THEN None
        ELSE Some(CHOOSE k \in hits : \A m \in hits : k <= m)

StrRangeFrom(s, i) == Slice(s, i, Len(s))
StrRange(s, i, j) == Slice(s, i, j)

-----------------------------------------------------------------------------
(* Readers.  A reader is a record                                          *)
(*   kind    which Source implementation it is                             *)
(*   buf     Cursor: the Str it wraps; stream readers: the bytes the       *)
(*           underlying io::Read will deliver                              *)
(*   limit   the limit field of ByteReader / StringReader                  *)
(*   offset  the offset field                                              *)
(*   pos     stream readers: bytes handed out by the BufReader so far      *)
(*   pulled  stream readers: bytes the BufReader has pulled out of the     *)
(*           io::Take around the underlying input                          *)
(*   log     what the current operation did besides reading: "alloc" n,    *)
(*           a buffer vec![0u8; n]; "with_capacity" n, Vec::with_capacity  *)
(*           of a declared count; "limit_check" n, a declared count        *)
(*           compared with limit(); "bad_key_started_at" o, the offset at  *)
(*           which a rejected array key began; "slice_end_before_start" j, *)
(*           an unchecked slice offset..j with j < offset was taken        *)
(*   build   the build profile: "debug" (debug_assert! and overflow checks *)
(*           are compiled in), or a release build, in which undefined      *)
(*           behaviour either faults ("release_trap") or runs on over      *)
(*           whatever the machine code computes ("release_wild")           *)
(*   fault   stream readers: the io::ErrorKind the underlying io::Read     *)
(*           returns the next time it is called, "None" if it will not     *)
(*           fail                                                          *)
(* The underlying io::Read delivers full reads and the input is shorter    *)
(* than the BufReader's buffer, so one fill pulls all that Take allows.    *)

CursorKinds == {"CursorBytes", "CursorStr"}
StreamKinds == {"ByteReader", "StringReader"}
\* a Source implemented by the caller to the documented contract of the trait
ContractKinds == {"TraitSource"}
Kinds == CursorKinds \cup StreamKinds \cup ContractKinds

IsText(r) == r.kind \in {"CursorStr", "StringReader"}

Logged(r, e, n) == [r EXCEPT !.log = Append(@, [e |-> e, n |-> n])]

\* Cursor::new, ByteReader::new, StringReader::new
NewReader(kind, buf, limit) ==
    [kind |-> kind, buf |-> buf, limit |-> limit, offset |-> 0,
     pos |-> 0, pulled |-> 0, log |-> <<>>, build |-> "debug",
     fault |-> "None"]

\* the same reader compiled under a build profile, over a transport that
\* will fail with the given kind
InBuild(r, build, fault) == [r EXCEPT !.build = build, !.fault = fault]

\* impl From<std::io::Error> for IoError
IoErrorFrom(ioKind) ==
    IF ioKind = "UnexpectedEof" THEN UnexpectedEof
    ELSE Io(ioKind)

(* ---- Cursor (src/src/parse.rs) ---- *)

CursorReadU8Char(r) ==
    IF r.offset + 1 >= Len(r.buf) THEN Err(r, UnexpectedEof)
    ELSE LET c == StrGetU8Char(IsText(r), r.buf, r.offset)
         IN  IF c.some
             THEN Ok([r EXCEPT !.offset = @ + 1], <<c.v>>)
             ELSE Err(r, BadEncoding(r.offset))

\* the slice offset..j of clone_slice is taken unchecked: with j < offset
\* (after  offset + n  wrapped) a release build faults or hands out a slice
\* that does not lie in the buffer
CursorSliced(r, j, s) ==
    IF ~UsizeLt(j, r.offset) THEN Ok([r EXCEPT !.offset = j], s)
    ELSE IF r.build = "release_wild"
    THEN Ok(Logged([r EXCEPT !.offset = j], "slice_end_before_start", j), s)
    ELSE Err(r, Panicked)

CursorReadStr(r, n) ==
    LET j == WrappingAdd(r.offset, n)
    IN  IF AddOverflows(r.offset, n) /\ r.build = "debug" THEN Err(r, Panicked)
        ELSE IF ~UsizeLt(j, Len(r.buf)) THEN Err(r, UnexpectedEof)
        ELSE LET s == StrCloneSlice(IsText(r), r.buf, r.offset, j)
             IN  IF s.some
                 THEN CursorSliced(r, j, s.v)
                 ELSE Err(r, BadEncoding(r.offset))

\* Str::find requires offset < len; outside it the unchecked slice
\* (offset + 1).. is out of bounds, which the result marks as Undefined.
CursorReadUntil(r, byte) ==
    IF r.offset >= Len(r.buf) THEN Err(r, Undefined)
    ELSE LET f == StrFind(r.buf, r.offset, byte)
         IN  IF ~f.some THEN Err(r, UnexpectedEof)
             ELSE CursorReadStr(r, f.v - r.offset)

(* ---- ByteReader / StringReader (src/src/source.rs) ---- *)

\* io::Take: the bytes of the input the reader may ever see
Avail(r) == Min(r.limit, Len(r.buf))

\* BufReader::read_exact(n): served from the buffer when it holds n bytes,
\* otherwise the buffer is refilled through Take; a short input consumes
\* what there is and reports io::ErrorKind::UnexpectedEof.
\* The BufReader refills its buffer through Take.  Take does not call the
\* underlying io::Read once limit bytes were pulled.  read_exact and
\* read_until of std retry a read that fails with ErrorKind::Interrupted
\* and return every other error.  io is the kind returned, "None" if none.
Fill(r) ==
    IF r.pulled >= r.limit THEN [r |-> r, io |-> "None"]
    ELSE IF r.fault \notin {"None", "Interrupted"}
    THEN [r |-> [r EXCEPT !.fault = "None"], io |-> r.fault]
    ELSE [r |-> [r EXCEPT !.fault = "None", !.pulled = Avail(r)], io |-> "None"]

\* read_exact after the refill f; what was buffered is consumed on failure
ReadExactFilled(r, n, f) ==
    IF f.io # "None" THEN Err([f.r EXCEPT !.pos = r.pulled], IoErrorFrom(f.io))
    ELSE IF r.pos + n <= f.r.pulled
    THEN Ok([f.r EXCEPT !.pos = @ + n], Slice(r.buf, r.pos, r.pos + n))
    ELSE Err([f.r EXCEPT !.pos = f.r.pulled], IoErrorFrom("UnexpectedEof"))

ReadExact(r, n) ==
    IF r.pos + n <= r.pulled
    THEN Ok([r EXCEPT !.pos = @ + n], Slice(r.buf, r.pos, r.pos + n))
    ELSE ReadExactFilled(r, n, Fill(r))

\* BufRead::read_until(byte): everything up to AND INCLUDING byte, or up to
\* the end of the input when byte does not occur; never an error on EOF.
BufScanned(r, from, byte) ==
    LET hits == {k \in from..(r.pulled - 1) : Byte(r.buf, k) = byte}
        stop == IF hits = {} THEN Max(r.pulled, from)
                ELSE (CHOOSE k \in hits : \A m \in hits : k <= m) + 1
    IN  Ok([r EXCEPT !.pos = stop], Slice(r.buf, from, stop))

\* read_until after the refill f
BufReadUntilFilled(r, byte, f) ==
    IF f.io # "None" THEN Err([f.r EXCEPT !.pos = r.pulled], IoErrorFrom(f.io))
    ELSE BufScanned(f.r, r.pos, byte)

BufReadUntil(r, byte) ==
    IF \E k \in r.pos..(r.pulled - 1) : Byte(r.buf, k) = byte
    THEN BufScanned(r, r.pos, byte)
    ELSE BufReadUntilFilled(r, byte, Fill(r))

ByteReaderReadU8Char(r) == ReadExact(r, 1)

\* ByteReader::read_str without its guard  n > self.limit
ByteReaderReadStrUnguarded(r, n) == ReadExact(Logged(r, "alloc", n), n)

ByteReaderReadStr(r, n) ==
    IF UsizeLt(r.limit, n) THEN Err(r, UnexpectedEof)
    ELSE ReadExact(Logged(r, "alloc", n), n)

ByteReaderReadUntil(r, byte) == BufReadUntil(r, byte)

\* str::from_utf8 / String::from_utf8 on what was read
Utf8Checked(res) ==
    IF res.ok /\ ~Utf8Valid(res.bytes)
    THEN Err(res.r, BadEncoding(res.r.offset))
    ELSE res

StringReaderReadU8Char(r) == Utf8Checked(ReadExact(r, 1))

StringReaderReadStr(r, n) ==
    IF UsizeLt(r.limit, n) THEN Err(r, UnexpectedEof)
    ELSE Utf8Checked(ReadExact(Logged(r, "alloc", n), n))

StringReaderReadUntil(r, byte) == Utf8Checked(BufReadUntil(r, byte))

(* ---- trait Source as documented (src/src/source.rs) ---- *)

TraitReadU8Char(r) ==
    IF r.offset >= Len(r.buf) THEN Err(r, UnexpectedEof)
    ELSE IF Byte(r.buf, r.offset) >= 128 THEN Err(r, BadEncoding(r.offset))
    ELSE Ok([r EXCEPT !.offset = @ + 1], <<Byte(r.buf, r.offset)>>)

TraitReadStr(r, n) ==
    IF UsizeLt(Len(r.buf) - r.offset, n) THEN Err(r, UnexpectedEof)
    ELSE Ok([r EXCEPT !.offset = @ + n], Slice(r.buf, r.offset, r.offset + n))

TraitReadUntil(r, byte) ==
    LET hits == {k \in r.offset..(Len(r.buf) - 1) : Byte(r.buf, k) = byte}
    IN  IF hits = {} THEN Err(r, UnexpectedEof)
        ELSE LET f == CHOOSE k \in hits : \A m \in hits : k <= m
             IN  Ok([r EXCEPT !.offset = f + 1], Slice(r.buf, r.offset, f))

(* ---- dispatch over the implementations of Source ---- *)

Offset(r) == r.offset

Limit(r) == IF r.kind \in CursorKinds THEN Len(r.buf) ELSE r.limit

ReadU8Char(r) ==
    CASE r.kind \in CursorKinds -> CursorReadU8Char(r)
      [] r.kind = "ByteReader" -> ByteReaderReadU8Char(r)
      [] r.kind = "StringReader" -> StringReaderReadU8Char(r)
      [] OTHER -> TraitReadU8Char(r)

ReadStr(r, n) ==
    CASE r.kind \in CursorKinds -> CursorReadStr(r, n)
      [] r.kind = "ByteReader" -> ByteReaderReadStr(r, n)
      [] r.kind = "StringReader" -> StringReaderReadStr(r, n)
      [] OTHER -> TraitReadStr(r, n)

ReadUntil(r, byte) ==
    CASE r.kind \in CursorKinds -> CursorReadUntil(r, byte)
      [] r.kind = "ByteReader" -> ByteReaderReadUntil(r, byte)
      [] r.kind = "StringReader" -> StringReaderReadUntil(r, byte)
      [] OTHER -> TraitReadUntil(r, byte)

\* bytes the reader has consumed from its input
Consumed(r) == IF r.kind \in StreamKinds THEN r.pos ELSE r.offset

-----------------------------------------------------------------------------
(* str::parse::<usize>, ::<i64>, ::<f64> (core::str::FromStr), used by     *)
(* parse_before.  Range checks compare decimal digit strings, so they are  *)
(* exact for the 64-bit targets without 64-bit arithmetic.                 *)

\* an optional sign: '+' (43) or, for the signed types, '-' (45)
Signs(T) == IF T = "usize" THEN {43} ELSE {43, 45}

IsDigit(b) == b >= 48 /\ b <= 57
AllDigits(s) == \A k \in 1..Len(s) : IsDigit(s[k])

RECURSIVE StripZeros(_)
StripZeros(d) ==
    IF Len(d) > 1 /\ d[1] = 48 THEN StripZeros(Tail(d)) ELSE d

RECURSIVE DigitsValue(_)
DigitsValue(d) ==
    IF d = <<>> THEN 0
    ELSE DigitsValue(SubSeq(d, 1, Len(d) - 1)) * 10 + (d[Len(d)] - 48)

\* d <= m for digit strings without leading zeros
RECURSIVE DigitsLeq(_, _)
DigitsLeq(d, m) ==
    IF Len(d) # Len(m) THEN Len(d) < Len(m)
    ELSE IF d = <<>> THEN TRUE
    ELSE IF d[1] # m[1] THEN d[1] < m[1]
    ELSE DigitsLeq(Tail(d), Tail(m))

\* usize::MAX, i64::MAX and -i64::MIN in decimal
UsizeMaxDigits == <<49,56,52,52,54,55,52,52,48,55,51,55,48,57,53,53,49,54,49,53>>
I64MaxDigits == <<57,50,50,51,51,55,50,48,51,54,56,53,52,55,55,53,56,48,55>>
I64MinDigits == <<57,50,50,51,51,55,50,48,51,54,56,53,52,55,55,53,56,48,56>>

\* the usize a digit string d <= usize::MAX denotes: a value within 10^9
\* of usize::MAX shares its first 11 digits, and is usize::MAX less the
\* difference of the last 9
UsizeOfDigits(d) ==
    IF Len(d) = 20 /\ SubSeq(d, 1, 11) = SubSeq(UsizeMaxDigits, 1, 11)
    THEN DigitsValue(SubSeq(d, 12, 20))
         - DigitsValue(SubSeq(UsizeMaxDigits, 12, 20)) - 1
    ELSE DigitsValue(d)

ParseUsize(s) ==
    LET d == IF s # <<>> /\ s[1] \in Signs("usize") THEN Tail(s) ELSE s
    IN  IF d = <<>> \/ ~AllDigits(d) THEN None
        ELSE IF ~DigitsLeq(StripZeros(d), UsizeMaxDigits) THEN None
        ELSE Some(UsizeOfDigits(StripZeros(d)))

ParseI64(s) ==
    LET neg == s # <<>> /\ s[1] = 45
        d == IF s # <<>> /\ s[1] \in Signs("i64") THEN Tail(s) ELSE s
    IN  IF d = <<>> \/ ~AllDigits(d) THEN None
        ELSE IF ~DigitsLeq(StripZeros(d), IF neg THEN I64MinDigits ELSE I64MaxDigits)
            THEN None
        ELSE Some(IF neg THEN 0 - DigitsValue(d) ELSE DigitsValue(d))

\* ASCII lower case
Lower(b) == IF b >= 65 /\ b <= 90 THEN b + 32 ELSE b
LowerSeq(s) == [k \in 1..Len(s) |-> Lower(s[k])]

\* f64: [sign] (inf | infinity | nan | digits [. digits] [e [sign] digits])
\* with '.' = 46 and 'e' = 101,
\* at least one mantissa digit.  The value is kept as the decimal it denotes.
ParseF64(s) ==
    LET neg == s # <<>> /\ s[1] = 45
        u == IF s # <<>> /\ s[1] \in Signs("f64") THEN Tail(s) ELSE s
        lo == LowerSeq(u)
        es == {k \in 1..Len(u) : lo[k] = 101}
        ePos == IF es = {} THEN Len(u) + 1 ELSE CHOOSE k \in es : \A m \in es : k <= m
        mantissa == SubSeq(u, 1, ePos - 1)
        expo == SubSeq(u, ePos + 1, Len(u))
        dots == {k \in 1..Len(mantissa) : mantissa[k] = 46}
        dPos == IF dots = {} THEN Len(mantissa) + 1
                ELSE CHOOSE k \in dots : \A m \in dots : k <= m
        ip == SubSeq(mantissa, 1, dPos - 1)
        fp == SubSeq(mantissa, dPos + 1, Len(mantissa))
        ex == ParseI64(expo)
    IN  IF lo \in {<<105,110,102>>, <<105,110,102,105,110,105,116,121>>}
        THEN Some([kind |-> "inf", neg |-> neg, mant |-> <<>>, scale |-> 0])
        ELSE IF lo = <<110,97,110>>
        THEN Some([kind |-> "nan", neg |-> neg, mant |-> <<>>, scale |-> 0])
        ELSE IF \/ ~AllDigits(ip) \/ ~AllDigits(fp) \/ ip \o fp = <<>>
                \/ (es # {} /\ ~ex.some)
        THEN None
        ELSE Some([kind |-> "num", neg |-> neg, mant |-> StripZeros(ip \o fp),
                   scale |-> (IF es = {} THEN 0 ELSE ex.v) - Len(fp)])

FromStr(T, s) ==
    CASE T = "usize" -> ParseUsize(s)
      [] T = "i64" -> ParseI64(s)
      [] OTHER -> ParseF64(s)

-----------------------------------------------------------------------------
(* Values (src/src/types.rs). *)

VNone == [t |-> "None"]
VNull == [t |-> "Null"]
VBool(b) == [t |-> "Bool", v |-> b]
VInt(n) == [t |-> "Int", v |-> n]
VFloat(x) == [t |-> "Float", v |-> x]
VString(s) == [t |-> "String", s |-> s]
VArray(items) == [t |-> "Array", items |-> items]
VObject(class, props) == [t |-> "Object", class |-> class, props |-> props]
VSerializable(class, data) == [t |-> "Serializable", class |-> class, data |-> data]
VReference(i) == [t |-> "Reference", v |-> i]

\* IoResult<Value<S>> (and IoResult<T> of parse_before), with the reader afterwards
DOk(r, v) == [ok |-> TRUE, r |-> r, bytes |-> <<>>, val |-> v, err |-> NoErr]

-----------------------------------------------------------------------------
(* Property-name demangling (read_object, src/src/parse.rs:170-193).       *)
(* err is "BadToken" (reported at the reader's offset) or "UnexpectedEof". *)

DemOk(vis, class, nm) == [ok |-> TRUE, vis |-> vis, class |-> class, name |-> nm, err |-> "None"]
DemErr(e) == [ok |-> FALSE, vis |-> "None", class |-> <<>>, name |-> <<>>, err |-> e]

\* demangling that takes a name with no second NUL for a public one
DemangleLenient(nb) ==
    IF Len(nb) >= 1 /\ Byte(nb, 0) = NUL
    THEN IF Len(nb) >= 2 /\ Byte(nb, 1) = CH_STAR
         THEN IF ~(Len(nb) >= 3 /\ Byte(nb, 2) = NUL)
              THEN DemErr("BadToken")
              ELSE DemOk("Protected", <<>>, StrRangeFrom(nb, 3))
         ELSE LET hits == {k \in 1..(Len(nb) - 1) : Byte(nb, k) = NUL}
              IN  IF hits = {} THEN DemOk("Public", <<>>, nb)
                  ELSE LET second_null == CHOOSE k \in hits : \A m \in hits : k <= m
                       IN  DemOk("Private", StrRange(nb, 1, second_null),
                                 StrRangeFrom(nb, second_null + 1))
    ELSE DemOk("Public", <<>>, nb)

Demangle(nb) ==
    IF Len(nb) >= 1 /\ Byte(nb, 0) = NUL
    THEN IF Len(nb) >= 2 /\ Byte(nb, 1) = CH_STAR
         THEN IF ~(Len(nb) >= 3 /\ Byte(nb, 2) = NUL)
              THEN DemErr("BadToken")
              ELSE DemOk("Protected", <<>>, StrRangeFrom(nb, 3))
         ELSE LET hits == {k \in 1..(Len(nb) - 1) : Byte(nb, k) = NUL}
              IN  IF hits = {} THEN DemErr("UnexpectedEof")
                  ELSE LET second_null == CHOOSE k \in hits : \A m \in hits : k <= m
                       IN  DemOk("Private", StrRange(nb, 1, second_null),
                                 StrRangeFrom(nb, second_null + 1))
    ELSE DemOk("Public", <<>>, nb)

-----------------------------------------------------------------------------
(* The grammar (src/src/parse.rs). *)

\* the ? operator of parse.rs (first at line 72): an Err is returned as it
\* is, an Ok goes on into the rest of the function, F
Then(res, F(_)) == IF ~res.ok THEN res ELSE F(res)

ExpectChar(r, char) ==
    Then(ReadU8Char(r), LAMBDA x :
        IF x.bytes[1] = char THEN DOk(x.r, VNone)
        ELSE Err(x.r, BadToken(Offset(x.r))))

\* .map_err(|_| Error::BadNumber(source.offset()))
OrBadNumber(r, p) ==
    IF p.some THEN DOk(r, p.v) ELSE Err(r, BadNumber(Offset(r)))

ParseBefore(r, char, T) ==
    Then(ReadUntil(r, char), LAMBDA x :
        IF ~Utf8Valid(x.bytes) THEN Err(x.r, BadNumber(Offset(x.r)))
        ELSE OrBadNumber(x.r, FromStr(T, x.bytes)))

ReadNull(r) ==
    Then(ExpectChar(r, CH_SEMI), LAMBDA e : DOk(e.r, VNull))

ReadBool(r) ==
    Then(ExpectChar(r, CH_COLON), LAMBDA e :
    Then(ReadU8Char(e.r), LAMBDA x :
        IF x.bytes[1] \notin {CH_1, CH_0} THEN Err(x.r, BadNumber(Offset(x.r)))
        ELSE
    Then(ExpectChar(x.r, CH_SEMI), LAMBDA f :
        DOk(f.r, VBool(x.bytes[1] = CH_1)))))

ReadInt(r) ==
    Then(ExpectChar(r, CH_COLON), LAMBDA e :
    Then(ParseBefore(e.r, CH_SEMI, "i64"), LAMBDA n :
        DOk(n.r, VInt(n.val))))

ReadFloat(r) ==
    Then(ExpectChar(r, CH_COLON), LAMBDA e :
    Then(ParseBefore(e.r, CH_SEMI, "f64"), LAMBDA n :
        DOk(n.r, VFloat(n.val))))

\* the shared shape  <len> : open <len bytes> close  of read_string,
\* read_object and read_ser: parse_before, expect_char, read_str, expect_char
ReadCounted(r, open, close) ==
    Then(ParseBefore(r, CH_COLON, "usize"), LAMBDA len :
    Then(ExpectChar(len.r, open), LAMBDA q :
    Then(ReadStr(q.r, len.val), LAMBDA c :
    Then(ExpectChar(c.r, close), LAMBDA z :
        DOk(z.r, VString(c.bytes))))))

ReadString(r) ==
    Then(ExpectChar(r, CH_COLON), LAMBDA e :
    Then(ReadCounted(e.r, CH_QUOTE, CH_QUOTE), LAMBDA content :
    Then(ExpectChar(content.r, CH_SEMI), LAMBDA z :
        DOk(z.r, content.val))))

ReadSer(r) ==
    Then(ExpectChar(r, CH_COLON), LAMBDA e :
    Then(ReadCounted(e.r, CH_QUOTE, CH_QUOTE), LAMBDA class :
    Then(ExpectChar(class.r, CH_COLON), LAMBDA f :
    Then(ReadCounted(f.r, CH_LBRACE, CH_RBRACE), LAMBDA data :
        DOk(data.r, VSerializable(class.val.s, data.val.s))))))

ReadRef(r) ==
    Then(ExpectChar(r, CH_COLON), LAMBDA e :
    Then(ParseBefore(e.r, CH_SEMI, "usize"), LAMBDA index :
        DOk(index.r, VReference(index.val))))

RECURSIVE FromSource(_)
RECURSIVE ReadArrayPairs(_, _, _)
RECURSIVE ReadObjectProps(_, _, _)

\* the loop  for _ in 0..len  of read_array
ReadArrayPairs(r, todo, vec) ==
    IF todo = 0 THEN DOk(r, vec)
    ELSE
    Then(FromSource(r), LAMBDA key :
        IF key.val.t \notin {"Int", "String"}
        THEN Err(Logged(key.r, "bad_key_started_at", Offset(r)),
                 BadArrayKeyType(Offset(key.r)))
        ELSE
    Then(FromSource(key.r), LAMBDA value :
        ReadArrayPairs(value.r, todo - 1, Append(vec, <<key.val, value.val>>))))

\* let mut vec = Vec::with_capacity(len); if len > source.limit() { .. }
ArrayAllocated(r, len) ==
    DOk(Logged(Logged(r, "with_capacity", len), "limit_check", len), VNone)

ReadArray(r) ==
    Then(ExpectChar(r, CH_SEMI), LAMBDA e :
    Then(ParseBefore(e.r, CH_COLON, "usize"), LAMBDA len :
    Then(ExpectChar(len.r, CH_LBRACE), LAMBDA b :
    Then(ArrayAllocated(b.r, len.val), LAMBDA c :
        IF UsizeLt(Limit(c.r), len.val) THEN Err(c.r, UnexpectedEof)
        ELSE
    Then(ReadArrayPairs(c.r, len.val, <<>>), LAMBDA vec :
    Then(ExpectChar(vec.r, CH_RBRACE), LAMBDA z :
        DOk(z.r, VArray(vec.val))))))))

\* the Err of demangling, at the reader's offset
DemangleError(r, d) ==
    Err(r, IF d.err = "BadToken" THEN BadToken(Offset(r)) ELSE UnexpectedEof)

\* PropertyName::new(vis, name), with the class of PropertyVis::Private
NewPropertyName(d) == [vis |-> d.vis, class |-> d.class, name |-> d.name]

\* the loop body of read_object from demangling on
ReadObjectProp(r, d, todo, properties) ==
    IF ~d.ok THEN DemangleError(r, d)
    ELSE
    Then(FromSource(r), LAMBDA value :
        ReadObjectProps(value.r, todo - 1,
                        Append(properties, <<NewPropertyName(d), value.val>>)))

\* the loop  for _ in 0..properties_len  of read_object
ReadObjectProps(r, todo, properties) ==
    IF todo = 0 THEN DOk(r, properties)
    ELSE
    Then(FromSource(r), LAMBDA nm :
        IF nm.val.t # "String" THEN Err(nm.r, BadObjectKeyType(Offset(nm.r)))
        ELSE ReadObjectProp(nm.r, Demangle(nm.val.s), todo, properties))

\* if properties_len > source.limit() { .. }
ObjectChecked(r, len) == DOk(Logged(r, "limit_check", len), VNone)

ReadObject(r) ==
    Then(ExpectChar(r, CH_COLON), LAMBDA e :
    Then(ReadCounted(e.r, CH_QUOTE, CH_QUOTE), LAMBDA class :
    Then(ExpectChar(class.r, CH_COLON), LAMBDA f :
    Then(ParseBefore(f.r, CH_COLON, "usize"), LAMBDA n :
    Then(ObjectChecked(n.r, n.val), LAMBDA c :
        IF UsizeLt(Limit(c.r), n.val) THEN Err(c.r, UnexpectedEof)
        ELSE
    Then(ExpectChar(c.r, CH_LBRACE), LAMBDA b :
    Then(ReadObjectProps(Logged(b.r, "with_capacity", n.val), n.val, <<>>),
         LAMBDA properties :
    Then(ExpectChar(properties.r, CH_RBRACE), LAMBDA z :
        DOk(z.r, VObject(class.val.s, properties.val))))))))))

\* the match on the tag byte in Value::from_source
TagDispatch(tag, r) ==
    CASE tag = CH_N -> ReadNull(r)
      [] tag = CH_b -> ReadBool(r)
      [] tag = CH_i -> ReadInt(r)
      [] tag = CH_d -> ReadFloat(r)
      [] tag = CH_s -> ReadString(r)
      [] tag = CH_a -> ReadArray(r)
      [] tag = CH_O -> ReadObject(r)
      [] tag = CH_C -> ReadSer(r)
      [] tag = CH_R -> ReadRef(r)
      [] OTHER -> Err(r, BadToken(Offset(r)))

\* Value::from_source
FromSource(r) ==
    Then(ReadU8Char(r), LAMBDA x : TagDispatch(x.bytes[1], x.r))

-----------------------------------------------------------------------------
(* Inputs. *)

RECURSIVE SeqsUpTo(_, _)
SeqsUpTo(S, n) ==
    IF n = 0 THEN {<<>>}
    ELSE LET shorter == SeqsUpTo(S, n - 1)
         IN  shorter \cup {Append(t, x) : t \in shorter, x \in S}

\* ';', '5' and the two bytes of U+00E9
Alphabet == {CH_SEMI, 53, 195, 169}

\* documents of the format and near misses of them
\* N;
Doc_Null == <<78, 59>>
\* i:5
Doc_IntTruncated == <<105, 58, 53>>
\* i:5;
Doc_Int == <<105, 58, 53, 59>>
\* s:0:"";
Doc_EmptyString == <<115, 58, 48, 58, 34, 34, 59>>
\* s:5:"ab";
Doc_ShortString == <<115, 58, 53, 58, 34, 97, 98, 34, 59>>
\* a:0:{}
Doc_EmptyArray == <<97, 58, 48, 58, 123, 125>>
\* O:0:"":0:{}
Doc_EmptyObject == <<79, 58, 48, 58, 34, 34, 58, 48, 58, 123, 125>>
\* a:9:{}
Doc_BigArray == <<97, 58, 57, 58, 123, 125>>
\* O:0:"":99:{}
Doc_BigObject == <<79, 58, 48, 58, 34, 34, 58, 57, 57, 58, 123, 125>>
\* a:1:{a:0:{}s:1:"y";}
Doc_ArrayKeyArray == <<97, 58, 49, 58, 123, 97, 58, 48, 58, 123, 125, 115, 58, 49, 58, 34, 121, 34, 59, 125>>
\* a;0:{}
Doc_SemiEmptyArray == <<97, 59, 48, 58, 123, 125>>
\* a;9:{}
Doc_SemiBigArray == <<97, 59, 57, 58, 123, 125>>
\* a;1:{N;N;}
Doc_SemiArrayKeyNull == <<97, 59, 49, 58, 123, 78, 59, 78, 59, 125>>
\* a;1:{a;0:{}s:1:"y";}
Doc_SemiArrayKeyArray == <<97, 59, 49, 58, 123, 97, 59, 48, 58, 123, 125, 115, 58, 49, 58, 34, 121, 34, 59, 125>>
\* O:1:"A":1:{s:4:"\0A\0b";N;}
Doc_ObjectPrivate == <<79, 58, 49, 58, 34, 65, 34, 58, 49, 58, 123, 115, 58, 52, 58, 34, 0, 65, 0, 98, 34, 59, 78, 59, 125>>

\* s:18446744073709551615:"";  (a declared length of usize::MAX)
Doc_HugeString == <<115, 58, 49, 56, 52, 52, 54, 55, 52, 52, 48, 55, 51, 55, 48, 57, 53, 53, 49, 54, 49, 53, 58, 34, 34, 59>>

\* text that begins with a mangled property name, U+00E9 in it:
\* \0 e' \0 b ;   and   \0 * \0 e' ;
Buf_PrivateName == <<0, 195, 169, 0, 98, 59>>
Buf_ProtectedName == <<0, 42, 0, 195, 169, 59>>

FixedDocs ==
    {Doc_Null,
     Doc_IntTruncated,
     Doc_Int,
     Doc_EmptyString,
     Doc_ShortString,
     Doc_EmptyArray,
     Doc_EmptyObject,
     Doc_BigArray,
     Doc_BigObject,
     Doc_ArrayKeyArray,
     Doc_SemiEmptyArray,
     Doc_SemiBigArray,
     Doc_SemiArrayKeyNull,
     Doc_SemiArrayKeyArray,
     Doc_ObjectPrivate,
     Doc_HugeString,
     Buf_PrivateName,
     Buf_ProtectedName}

Inputs == SeqsUpTo(Alphabet, MaxLen) \cup FixedDocs

\* NUL, '*', 'A', 'b'
NameAlphabet == {NUL, CH_STAR, 65, 98}
Names == SeqsUpTo(NameAlphabet, MaxName)

Delims == {CH_SEMI, CH_COLON}

\* the lengths read_str is asked for: 0..MaxN and usize::MAX - k, k < MaxWrap
ReadLens == (0..MaxN) \cup {0 - k : k \in 1..MaxWrap}

\* the build profiles that differ for the reader
Builds(kind) ==
    IF kind \in CursorKinds THEN {"debug", "release_trap", "release_wild"}
    ELSE {"debug"}

\* what the transport under a stream reader fails with, if it does
Faults(kind) ==
    IF kind \in StreamKinds
    THEN {"None", "UnexpectedEof", "Interrupted", "ConnectionReset"}
    ELSE {"None"}

\* the limits a reader over buf can be constructed with
Limits(kind, buf) ==
    CASE kind \in CursorKinds -> {Len(buf)}
      [] kind \in StreamKinds -> (0..MaxLimit) \cup {Len(buf)}
      [] OTHER -> {l \in 0..MaxLimit : l >= Len(buf)} \cup {Len(buf)}

-----------------------------------------------------------------------------
(* The state machine: a caller constructs a reader over an input and then  *)
(* reads from it, or hands it to Value::from_source.                       *)

Result(op, arg, x) ==
    [op |-> op, arg |-> arg, ok |-> x.ok, bytes |-> x.bytes, val |-> x.val,
     err |-> x.err]

NoResult == Result("new", 0, Ok(0, <<>>))

NoDem == [ok |-> FALSE, vis |-> "None", class |-> <<>>, name |-> <<>>, err |-> "NotRun"]

Cleared(r) == [r EXCEPT !.log = <<>>]

Init ==
    /\ \E kind \in Kinds, buf \in Inputs :
         /\ kind = "CursorStr" => Utf8Valid(buf)
         /\ \E limit \in Limits(kind, buf), build \in Builds(kind),
               fault \in Faults(kind) :
              src = InBuild(NewReader(kind, buf, limit), build, fault)
    /\ prev = src
    /\ last = NoResult
    /\ name = <<>>
    /\ dem = NoDem
    /\ twin = NoResult

Alive == last.err.k # "Panic"

DoReadU8Char ==
    /\ Alive
    /\ LET x == ReadU8Char(Cleared(src))
       IN  /\ src' = x.r
           /\ last' = Result("read_u8_char", 0, x)
    /\ prev' = Cleared(src)
    /\ name' = <<>>
    /\ dem' = NoDem
    /\ UNCHANGED twin

DoReadStr ==
    /\ Alive
    /\ \E n \in ReadLens :
         LET x == ReadStr(Cleared(src), n)
         IN  /\ src' = x.r
             /\ last' = Result("read_str", n, x)
    /\ prev' = Cleared(src)
    /\ name' = <<>>
    /\ dem' = NoDem
    /\ UNCHANGED twin

\* Out of Str::find's precondition a debug build panics on the
\* debug_assert; a release build scans past the buffer and either faults
\* or finds the byte at some index >= len, which read_str turns into
\* UnexpectedEof.
DoReadUntil ==
    /\ Alive
    /\ \E byte \in Delims :
         LET x == ReadUntil(Cleared(src), byte)
         IN  /\ src' = x.r
             /\ IF x.err.k = "Undefined"
                THEN \E out \in {Panicked, UnexpectedEof} :
                       last' = Result("read_until", byte, Err(x.r, out))
                ELSE last' = Result("read_until", byte, x)
    /\ prev' = Cleared(src)
    /\ name' = <<>>
    /\ dem' = NoDem
    /\ UNCHANGED twin

\* Value::parse / Value::from_source on a reader nothing was read from yet
DoDecode ==
    /\ last.op = "new"
    /\ LET x == FromSource(Cleared(src))
       IN  /\ src' = x.r
           /\ last' = Result("decode", 0, x)
    /\ prev' = Cleared(src)
    /\ name' = <<>>
    /\ dem' = NoDem
    /\ UNCHANGED twin

\* read_object demangles the String it has read as a property name
DoDemangleRead ==
    /\ Alive
    /\ last.op = "read_str"
    /\ last.ok
    /\ dem = NoDem
    /\ name' = last.bytes
    /\ dem' = Demangle(last.bytes)
    /\ UNCHANGED <<src, prev, last, twin>>

Next == DoReadU8Char \/ DoReadStr \/ DoReadUntil \/ DoDecode \/ DoDemangleRead

Spec == Init /\ [][Next]_vars

(* Demangling on its own: every raw name up to MaxName bytes. *)

InitDemangle ==
    /\ src = NewReader("CursorBytes", <<>>, 0)
    /\ prev = src
    /\ last = NoResult
    /\ name \in Names
    /\ dem = NoDem
    /\ twin = NoResult

DoDemangle ==
    /\ dem = NoDem
    /\ dem' = Demangle(name)
    /\ UNCHANGED <<src, prev, last, name, twin>>

NextDemangle == DoDemangle

SpecDemangle == InitDemangle /\ [][NextDemangle]_vars

(* One input decoded twice: by Value::parse, through a Cursor over the     *)
(* bytes, and by Value::from_source through a ByteReader that may see all  *)
(* of it.                                                                  *)

InitCompare ==
    /\ \E buf \in Inputs, build \in Builds("CursorBytes") :
         src = InBuild(NewReader("CursorBytes", buf, Len(buf)), build, "None")
    /\ prev = src
    /\ last = NoResult
    /\ name = <<>>
    /\ dem = NoDem
    /\ twin = NoResult

DoDecodeBoth ==
    /\ last.op = "new"
    /\ \E limit \in Len(src.buf)..(Len(src.buf) + 1) :
         twin' = Result("decode", limit,
                        FromSource(NewReader("ByteReader", src.buf, limit)))
    /\ LET x == FromSource(Cleared(src))
       IN  /\ src' = x.r
           /\ last' = Result("decode", 0, x)
    /\ prev' = Cleared(src)
    /\ UNCHANGED <<name, dem>>

NextCompare == DoDecodeBoth

SpecCompare == InitCompare /\ [][NextCompare]_vars

-----------------------------------------------------------------------------
(* Properties. *)

\* the readers this repository implements
OwnKinds == CursorKinds \cup StreamKinds

\* one past the last byte of its input the reader can deliver
InputEnd(r) == IF r.kind \in StreamKinds THEN Avail(r) ELSE Len(r.buf)

\* the offsets >= the reader's position at which byte occurs
Occurrences(r, byte) ==
    {k \in Consumed(r)..(InputEnd(r) - 1) : Byte(r.buf, k) = byte}

FirstOccurrence(r, byte) ==
    CHOOSE k \in Occurrences(r, byte) : \A m \in Occurrences(r, byte) : k <= m

\* C1: for Cursor, ByteReader and StringReader, when the delimiter occurs
\* at or after the current offset (and, for a text reader, the bytes before
\* it are valid UTF-8), read_until returns exactly the bytes before the
\* first occurrence and leaves the reader one byte past it.
C1_ReadUntilStopsPastDelimiter ==
    (/\ last.op = "read_until"
     /\ prev.kind \in OwnKinds
     /\ Occurrences(prev, last.arg) # {}
     /\ IsText(prev) =>
          Utf8Valid(Slice(prev.buf, Consumed(prev), FirstOccurrence(prev, last.arg))))
    => /\ last.ok
       /\ last.bytes = Slice(prev.buf, Consumed(prev), FirstOccurrence(prev, last.arg))
       /\ Consumed(src) = FirstOccurrence(prev, last.arg) + 1

\* C2: for a Cursor over raw bytes of length L at offset o, read_u8_char
\* succeeds exactly when o < L and read_str(n) exactly when o + n <= L,
\* returning the bytes read and advancing past them; every other read
\* fails with UnexpectedEof; and the document N; decodes to Null.
C2_CursorReadsWholeBuffer ==
    /\ (last.op = "read_u8_char" /\ prev.kind = "CursorBytes") =>
         /\ last.ok <=> prev.offset < Len(prev.buf)
         /\ last.ok => /\ last.bytes = <<Byte(prev.buf, prev.offset)>>
                       /\ src.offset = prev.offset + 1
         /\ ~last.ok => last.err = UnexpectedEof /\ src.offset = prev.offset
    /\ (last.op = "read_str" /\ prev.kind = "CursorBytes") =>
         /\ last.ok <=> prev.offset + last.arg <= Len(prev.buf)
         /\ last.ok => /\ last.bytes = Slice(prev.buf, prev.offset, prev.offset + last.arg)
                       /\ src.offset = prev.offset + last.arg
         /\ ~last.ok => last.err = UnexpectedEof /\ src.offset = prev.offset
    /\ (last.op = "decode" /\ prev.kind = "CursorBytes" /\ prev.buf = Doc_Null) =>
         last.ok /\ last.val = VNull

\* a decode by one of the repository's readers that can see the whole document
DecodedWhole(doc) ==
    /\ last.op = "decode"
    /\ prev.buf = doc
    /\ prev.kind \in OwnKinds
    /\ Limit(prev) >= Len(doc)

\* C3: a:0:{} decodes to an Array without pairs, O:0:"":0:{} to an Object
\* with empty class name and no properties, s:0:""; to an empty String,
\* through the Cursor and through the stream readers.
C3_EmptyContainersDecode ==
    /\ DecodedWhole(Doc_EmptyArray) => last.ok /\ last.val = VArray(<<>>)
    /\ DecodedWhole(Doc_EmptyObject) => last.ok /\ last.val = VObject(<<>>, <<>>)
    /\ DecodedWhole(Doc_EmptyString) => last.ok /\ last.val = VString(<<>>)

\* C4: for Cursor, ByteReader and StringReader, read_until fails with
\* UnexpectedEof whenever the delimiter does not occur in the remaining
\* input, and the truncated scalar i:5 is never decoded to a value.
C4_ReadUntilMissingDelimiterFails ==
    /\ (/\ last.op = "read_until"
        /\ prev.kind \in OwnKinds
        /\ Occurrences(prev, last.arg) = {})
       => ~last.ok /\ last.err = UnexpectedEof
    /\ (last.op = "decode" /\ prev.kind \in OwnKinds /\ prev.buf = Doc_IntTruncated)
       => ~last.ok

\* C5: for Cursor, ByteReader and StringReader, offset() is the number of
\* bytes consumed so far, never decreases, grows on every successful read
\* that consumes a byte, and limit() never changes.
C5_OffsetCountsConsumedBytes ==
    src.kind \in OwnKinds =>
        /\ Offset(src) = Consumed(src)
        /\ Offset(src) >= Offset(prev)
        /\ (last.ok /\ Consumed(src) > Consumed(prev)) => Offset(src) > Offset(prev)
        /\ Limit(src) = Limit(prev)

\* C6: in array and in object decoding, whenever a declared count exceeds
\* the reader's limit the decode fails with UnexpectedEof and no
\* Vec::with_capacity of a count above the limit happened before the check;
\* so a:9:{} and O:0:"":99:{}, read whole under a limit below their count,
\* fail with UnexpectedEof.
C6_CountCheckedBeforeAllocation ==
    /\ last.op = "decode" =>
          \A i \in DOMAIN src.log :
              (src.log[i].e = "limit_check" /\ src.log[i].n > Limit(src)) =>
                  /\ last.err = UnexpectedEof
                  /\ \A j \in 1..(i - 1) :
                         ~(src.log[j].e = "with_capacity" /\ src.log[j].n > Limit(src))
    /\ (DecodedWhole(Doc_BigArray) /\ Limit(prev) < 9) => last.err = UnexpectedEof
    /\ (DecodedWhole(Doc_BigObject) /\ Limit(prev) < 99) => last.err = UnexpectedEof

\* the read that was asked for cannot be served without at least one more byte
NeedsByte ==
    \/ last.op = "read_u8_char"
    \/ last.op = "read_str" /\ last.arg >= 1
    \/ last.op = "read_until"

\* C7: a stream reader constructed with limit M never pulls more than M
\* bytes from the underlying input, and once M bytes are consumed every
\* read that needs a byte fails with UnexpectedEof.
C7_LimitCapsStreamReads ==
    src.kind \in StreamKinds =>
        /\ src.pulled <= src.limit
        /\ Consumed(src) <= src.limit
        /\ (NeedsByte /\ Consumed(prev) >= prev.limit) =>
               ~last.ok /\ last.err = UnexpectedEof

\* C8: on a stream reader, read_str(n) with n > limit fails with
\* UnexpectedEof without allocating a buffer, without pulling a byte from
\* the underlying input and without moving the reader.
C8_OversizedReadStrFailsFast ==
    (/\ last.op = "read_str"
     /\ prev.kind \in StreamKinds
     /\ UsizeLt(prev.limit, last.arg)) =>
        /\ ~last.ok
        /\ last.err = UnexpectedEof
        /\ src.log = <<>>
        /\ src.pulled = prev.pulled
        /\ Consumed(src) = Consumed(prev)

\* C8 witness: read_str(n) with n above a positive limit was refused on a
\* stream reader whose underlying input still holds n unread bytes.
C8_Witness ==
    /\ last.op = "read_str"
    /\ prev.kind \in StreamKinds
    /\ prev.limit > 0
    /\ last.arg > prev.limit
    /\ Consumed(prev) + last.arg <= Len(prev.buf)
    /\ last.err = UnexpectedEof

\* C9: a decode that rejects an array key with BadArrayKeyType reports the
\* offset at which that key began, and a:1:{a:0:{}s:1:"y";} is rejected
\* with BadArrayKeyType at offset 5.
C9_BadArrayKeyOffsetIsKeyStart ==
    /\ (last.op = "decode" /\ last.err.k = "BadArrayKeyType") =>
         /\ src.log # <<>>
         /\ src.log[Len(src.log)].e = "bad_key_started_at"
         /\ last.err.off = src.log[Len(src.log)].n
    /\ DecodedWhole(Doc_ArrayKeyArray) => last.err = BadArrayKeyType(5)

\* name begins NUL, its next NUL is at 1-based position k
SecondNulAt(k) ==
    /\ k \in 2..Len(name)
    /\ name[1] = NUL
    /\ name[k] = NUL
    /\ \A m \in 2..(k - 1) : name[m] # NUL

LeadingNul == name # <<>> /\ name[1] = NUL

\* C10 as claimed: no leading NUL gives Public with the name unchanged;
\* NUL,'*',NUL gives Protected with the bytes after the third byte; NUL,
\* bytes c without NUL, NUL gives Private(c) with the bytes after the
\* second NUL; a leading NUL without a second NUL is rejected.
C10_DemangleAsClaimed ==
    dem # NoDem =>
        /\ ~LeadingNul => dem = DemOk("Public", <<>>, name)
        /\ (Len(name) >= 3 /\ SubSeq(name, 1, 3) = <<NUL, CH_STAR, NUL>>) =>
               dem = DemOk("Protected", <<>>, SubSeq(name, 4, Len(name)))
        /\ \A k \in 2..Len(name) :
               SecondNulAt(k) =>
                   dem = DemOk("Private", SubSeq(name, 2, k - 1),
                               SubSeq(name, k + 1, Len(name)))
        /\ (LeadingNul /\ \A k \in 2..Len(name) : name[k] # NUL) => ~dem.ok

\* C10 amended: as claimed, except that Private(c) needs c not to begin
\* with '*', and a name beginning NUL,'*' whose third byte is not NUL is
\* rejected with BadToken.
C10_Demangle ==
    dem # NoDem =>
        /\ ~LeadingNul => dem = DemOk("Public", <<>>, name)
        /\ (Len(name) >= 3 /\ SubSeq(name, 1, 3) = <<NUL, CH_STAR, NUL>>) =>
               dem = DemOk("Protected", <<>>, SubSeq(name, 4, Len(name)))
        /\ \A k \in 2..Len(name) :
               (SecondNulAt(k) /\ (k = 2 \/ name[2] # CH_STAR)) =>
                   dem = DemOk("Private", SubSeq(name, 2, k - 1),
                               SubSeq(name, k + 1, Len(name)))
        /\ (/\ Len(name) >= 2
            /\ SubSeq(name, 1, 2) = <<NUL, CH_STAR>>
            /\ ~(Len(name) >= 3 /\ name[3] = NUL)) => dem = DemErr("BadToken")
        /\ (LeadingNul /\ \A k \in 2..Len(name) : name[k] # NUL) => ~dem.ok

\* C10 witness: the name NUL 'A' NUL 'b' was demangled to the private
\* property b of class A.
C10_Witness ==
    /\ name = <<NUL, 65, NUL, 98>>
    /\ dem = DemOk("Private", <<65>>, <<98>>)

\* the reads of a Source
ReadOps == {"read_u8_char", "read_str", "read_until"}

\* the last read was asked to end at offset end, inside a multi-byte code point
EndsInsideCodePoint(end) ==
    /\ end < Len(prev.buf)
    /\ ~IsCharBoundary(prev.buf, end)

\* C11: for a Cursor over UTF-8 text the offset is always a code-point
\* boundary of the buffer; every string a read hands out starts and ends
\* at a code-point boundary (and is valid UTF-8 when it lies in the
\* buffer), as do the class and the name that demangling cuts out of a
\* string handed out; and
\* read_u8_char and read_str(n), n within the buffer, whose end falls
\* inside a multi-byte code point fail with BadEncoding and leave the
\* offset where it was.
C11_TextCursorKeepsBoundaries ==
    src.kind = "CursorStr" =>
        /\ IsCharBoundary(src.buf, src.offset)
        /\ (last.op \in ReadOps /\ last.ok) =>
               /\ IsCharBoundary(prev.buf, prev.offset)
               /\ IsCharBoundary(prev.buf, src.offset)
               /\ src.log = <<>> =>
                      /\ last.bytes = Slice(prev.buf, prev.offset, src.offset)
                      /\ Utf8Valid(last.bytes)
        /\ (last.op = "read_u8_char" /\ EndsInsideCodePoint(prev.offset + 1)) =>
               last.err = BadEncoding(prev.offset) /\ src.offset = prev.offset
        /\ (/\ last.op = "read_str"
            /\ last.arg >= 0
            /\ EndsInsideCodePoint(prev.offset + last.arg)) =>
               last.err = BadEncoding(prev.offset) /\ src.offset = prev.offset
        /\ (dem # NoDem /\ dem.ok) =>
               /\ Utf8Valid(name)
               /\ Utf8Valid(dem.class)
               /\ Utf8Valid(dem.name)

\* C11 witness: a Cursor over the text  NUL U+00E9 NUL b ;  handed out its
\* first five bytes, which were demangled to the private property b of the
\* class U+00E9.
C11_Witness ==
    /\ src.kind = "CursorStr"
    /\ last.op = "read_str"
    /\ last.bytes = <<NUL, 195, 169, NUL, 98>>
    /\ dem = DemOk("Private", <<195, 169>>, <<98>>)

\* during the last operation the transport under a stream reader returned
\* the error it had been set up to return
TransportFailed ==
    /\ prev.kind \in StreamKinds
    /\ last.op \in ReadOps \cup {"decode"}
    /\ prev.fault # "None"
    /\ src.fault = "None"

\* what a transport error of the given kind is to be reported as
Reported(ioKind) == IF ioKind = "UnexpectedEof" THEN UnexpectedEof ELSE Io(ioKind)

\* C12: whenever the transport under a stream reader fails during a read
\* or a decode, the operation fails, with UnexpectedEof (which has no
\* offset) if the kind is UnexpectedEof and with the same error as
\* IoError::Io otherwise; no transport error ends in a successful result.
C12_TransportErrorsReported ==
    TransportFailed =>
        /\ ~last.ok
        /\ last.err = Reported(prev.fault)
        /\ last.err.off = -1

\* What the code does hold to: every transport error but one of kind
\* Interrupted is reported so, an Interrupted one is never reported, and an
\* IoError::Io is reported only for a transport error, with its kind.
TransportErrorsButInterrupted ==
    /\ (TransportFailed /\ prev.fault # "Interrupted") =>
           /\ ~last.ok
           /\ last.err = Reported(prev.fault)
    /\ (TransportFailed /\ prev.fault = "Interrupted") => last.err.k # "Io"
    /\ last.err.k = "Io" => TransportFailed /\ last.err.io = prev.fault

\* C13: a byte sequence decoded through a Cursor over the bytes and through
\* a ByteReader whose limit is at least its length gives the same outcome:
\* both succeed with equal values, or both fail with the same error at the
\* same offset.
C13_SameOutcomeThroughBothReaders ==
    (last.op = "decode" /\ twin.op = "decode") =>
        /\ last.ok = twin.ok
        /\ last.val = twin.val
        /\ last.err = twin.err

\* C14: on a Cursor at offset o, read_str(n) for every usize n, those next
\* to usize::MAX included, either returns exactly the n bytes from o on and
\* moves the offset to o + n, or fails with UnexpectedEof and leaves the
\* offset (or, on text, fails with BadEncoding when o + n lies inside a
\* code point); no slice that ends before it starts is taken and nothing
\* panics.
C14_ReadStrNeverWraps ==
    (last.op = "read_str" /\ prev.kind \in CursorKinds) =>
        \/ /\ last.ok
           /\ last.arg >= 0
           /\ Len(last.bytes) = last.arg
           /\ last.bytes = Slice(prev.buf, prev.offset, prev.offset + last.arg)
           /\ src.offset = prev.offset + last.arg
           /\ src.log = <<>>
        \/ /\ last.err = UnexpectedEof
           /\ src.offset = prev.offset
        \/ /\ prev.kind = "CursorStr"
           /\ last.arg >= 0
           /\ EndsInsideCodePoint(prev.offset + last.arg)
           /\ last.err = BadEncoding(prev.offset)
           /\ src.offset = prev.offset

=============================================================================
